---- MODULE Spec2Model ----
\* Model of check_gorm_postgres.py: a guardrail that walks a source tree,
\* selects Go files, scans them line by line for raw SQL usage and reports.
\*
\* Text is modelled at character level.  A character is a one-character
\* string; a byte above 0x7F is written "0xNN" and a decoded non-ASCII code
\* point "U+NNNN".  A str, a bytes object and a path component are sequences
\* of characters; a path is the sequence of its components (pathlib parts).
EXTENDS Naturals, Integers, Sequences, FiniteSets, TLC

VARIABLES argv, cwd, tree, root, pending, visited, reads, violations, out, ret, pc

vars == <<argv, cwd, tree, root, pending, visited, reads, violations, out, ret, pc>>

----------------------------------------------------------------------------
\* Generic string helpers (Python str operations used by the script).

RECURSIVE Concat(_)
Concat(ss) == IF ss = <<>> THEN <<>> ELSE Head(ss) \o Concat(Tail(ss))

\* `sub in s`
Contains(s, sub) ==
    \E p \in 1..(Len(s) + 1) :
        /\ p + Len(sub) - 1 <= Len(s)
        /\ SubSeq(s, p, p + Len(sub) - 1) = sub

\* s.endswith(suf)
EndsWith(s, suf) ==
    /\ Len(suf) <= Len(s)
    /\ SubSeq(s, Len(s) - Len(suf) + 1, Len(s)) = suf

\* s.rfind("."), as a 1-based index, 0 when absent
RFindDot(s) ==
    IF \E i \in 1..Len(s) : s[i] = "."
    THEN CHOOSE i \in 1..Len(s) : s[i] = "." /\ \A j \in (i + 1)..Len(s) : s[j] # "."
    ELSE 0

----------------------------------------------------------------------------
\* Constants of the script.

ALLOW_TAG == <<"g", "o", "r", "m", "-", "p", "o", "s", "t", "g", "r", "e", "s", "-", "e", "n", "f", "o", "r", "c", "e", "r", ":", " ", "a", "l", "l", "o", "w", "-", "r", "a", "w", "-", "s", "q", "l">>

DotGit == <<".", "g", "i", "t">>
Vendor == <<"v", "e", "n", "d", "o", "r">>
NodeModules == <<"n", "o", "d", "e", "_", "m", "o", "d", "u", "l", "e", "s">>
Docs == <<"d", "o", "c", "s">>
HttpServer == <<"h", "t", "t", "p", "s", "e", "r", "v", "e", "r">>
GoSuffix == <<".", "g", "o">>
TestGoSuffix == <<"_", "t", "e", "s", "t", ".", "g", "o">>

SKIP_DIRS == {DotGit, Vendor, NodeModules}

\* Characters matched by \s in a str pattern (those the model's alphabet has).
Whitespace == {" ", "\t", "\n", "\r", "\f", "U+0085"}

\* Regular expressions are sequences of elements:
\*   lit c : the character c;  ws* : \s* ;  bol : ^ ;  eol : $
Lit(c) == [op |-> "lit", ch |-> c]
WsStar == [op |-> "ws*", ch |-> ""]
Bol == [op |-> "bol", ch |-> ""]
Eol == [op |-> "eol", ch |-> ""]

Lits(s) == [i \in 1..Len(s) |-> Lit(s[i])]

\* re.compile(r"\.\s*<name>\s*\(")
CallRe(name) == <<Lit("."), WsStar>> \o Lits(name) \o <<WsStar, Lit("(")>>

BAD_CALL_PATTERNS == <<
    [pattern |-> "\\.\\s*QueryContext\\s*\\(",
     re |-> CallRe(<<"Q", "u", "e", "r", "y", "C", "o", "n", "t", "e", "x", "t">>)],
    [pattern |-> "\\.\\s*QueryRowContext\\s*\\(",
     re |-> CallRe(<<"Q", "u", "e", "r", "y", "R", "o", "w", "C", "o", "n", "t", "e", "x", "t">>)],
    [pattern |-> "\\.\\s*QueryRow\\s*\\(",
     re |-> CallRe(<<"Q", "u", "e", "r", "y", "R", "o", "w">>)],
    [pattern |-> "\\.\\s*Query\\s*\\(",
     re |-> CallRe(<<"Q", "u", "e", "r", "y">>)],
    [pattern |-> "\\.\\s*ExecContext\\s*\\(",
     re |-> CallRe(<<"E", "x", "e", "c", "C", "o", "n", "t", "e", "x", "t">>)],
    [pattern |-> "\\.\\s*Exec\\s*\\(",
     re |-> CallRe(<<"E", "x", "e", "c">>)],
    [pattern |-> "\\.\\s*PrepareContext\\s*\\(",
     re |-> CallRe(<<"P", "r", "e", "p", "a", "r", "e", "C", "o", "n", "t", "e", "x", "t">>)],
    [pattern |-> "\\.\\s*Prepare\\s*\\(",
     re |-> CallRe(<<"P", "r", "e", "p", "a", "r", "e">>)] >>

DatabaseSqlQuoted == <<"\"", "d", "a", "t", "a", "b", "a", "s", "e", "/", "s", "q", "l", "\"">>

\* re.compile(r'^\s*"database/sql"\s*$')
BAD_IMPORT_PATTERN ==
    [pattern |-> "^\\s*\"database/sql\"\\s*$",
     re |-> <<Bol, WsStar>> \o Lits(DatabaseSqlQuoted) \o <<WsStar, Eol>>]

FmtSprintf == <<"f", "m", "t", ".", "S", "p", "r", "i", "n", "t", "f", "(">>
KwSelect == <<"S", "E", "L", "E", "C", "T", " ">>
KwInsert == <<"I", "N", "S", "E", "R", "T", " ">>
KwUpdate == <<"U", "P", "D", "A", "T", "E", " ">>
KwDelete == <<"D", "E", "L", "E", "T", "E", " ">>

ImportMsg == <<"forbidden import \"database/sql\"">>
SprintfMsg == <<"possible SQL string construction with fmt.Sprintf">>
CallMsg(pat) == <<"forbidden raw SQL API usage: ", pat.pattern>>

----------------------------------------------------------------------------
\* Regular expression matching (re.Pattern.search on one line).

\* The elements re[i..] match a prefix of s[p..].
RECURSIVE MatchAt(_, _, _, _)
MatchAt(re, i, s, p) ==
    IF i > Len(re) THEN TRUE
    ELSE CASE re[i].op = "lit" ->
                /\ p <= Len(s)
                /\ s[p] = re[i].ch
                /\ MatchAt(re, i + 1, s, p + 1)
           [] re[i].op = "ws*" ->
                \/ MatchAt(re, i + 1, s, p)
                \/ /\ p <= Len(s)
                   /\ s[p] \in Whitespace
                   /\ MatchAt(re, i, s, p + 1)
           [] re[i].op = "bol" ->
                /\ p = 1
                /\ MatchAt(re, i + 1, s, p)
           [] re[i].op = "eol" ->
                /\ \/ p = Len(s) + 1
                   \/ p = Len(s) /\ s[p] = "\n"
                /\ MatchAt(re, i + 1, s, p)

\* pat.search(line) is not None
Search(pat, line) == \E p \in 1..(Len(line) + 1) : MatchAt(pat.re, 1, line, p)

----------------------------------------------------------------------------
\* Decoding and line splitting (Path.read_text, str.splitlines).

HighBytes == {"0xC3", "0xA9", "0x85", "0xFF"}
Utf8Lead2 == {"0xC3"}
Utf8Cont == {"0xA9", "0x85"}

\* The code point of the two-byte UTF-8 sequence 0xC3 b.
Utf8Pair(b) == IF b = "0xA9" THEN "U+00E9" ELSE "U+00C5"

\* bytes.decode("utf-8") succeeds: every lead byte is followed by a
\* continuation byte, every continuation byte follows a lead byte, and no
\* other byte above 0x7F occurs.
Utf8Valid(bytes) ==
    \A i \in 1..Len(bytes) :
        /\ bytes[i] \in HighBytes => bytes[i] \in Utf8Lead2 \cup Utf8Cont
        /\ bytes[i] \in Utf8Lead2 => i < Len(bytes) /\ bytes[i + 1] \in Utf8Cont
        /\ bytes[i] \in Utf8Cont => i > 1 /\ bytes[i - 1] \in Utf8Lead2

IsNotUtf8Cont(b) == b \notin Utf8Cont

\* bytes.decode("utf-8"), for valid input: a lead byte becomes the code point
\* of its pair, the continuation byte is consumed.
Utf8Decode(bytes) ==
    SelectSeq([i \in 1..Len(bytes) |->
                  IF bytes[i] \in Utf8Lead2 THEN Utf8Pair(bytes[i + 1]) ELSE bytes[i]],
              IsNotUtf8Cont)

\* bytes.decode("latin-1"): every byte is the code point of the same number
Latin1Char(b) ==
    CASE b = "0xC3" -> "U+00C3"
      [] b = "0xA9" -> "U+00A9"
      [] b = "0x85" -> "U+0085"
      [] b = "0xFF" -> "U+00FF"
      [] OTHER -> b

Latin1Decode(bytes) == [i \in 1..Len(bytes) |-> Latin1Char(bytes[i])]

IsKept(c) == c # "dropped"

\* Text-mode reading (newline=None): "\r\n" and a lone "\r" become "\n".
UniversalNewlines(text) ==
    SelectSeq([i \in 1..Len(text) |->
                  IF text[i] = "\n" /\ i > 1 /\ text[i - 1] = "\r" THEN "dropped"
                  ELSE IF text[i] = "\r" THEN "\n"
                  ELSE text[i]],
              IsKept)

\* try read_text("utf-8") except UnicodeDecodeError: read_text("latin-1")
read_text(bytes) ==
    UniversalNewlines(IF Utf8Valid(bytes) THEN Utf8Decode(bytes) ELSE Latin1Decode(bytes))

\* Line boundaries of str.splitlines (those the model's alphabet has).
LineBreaks == {"\n", "\r", "\f", "U+0085"}

\* The lines of text[i..]: up to the next boundary, then the rest; "\r\n" is
\* one boundary, and a boundary at the very end opens no further line.
RECURSIVE SplitFrom(_, _)
SplitFrom(text, i) ==
    IF i > Len(text) THEN <<>>
    ELSE LET breaks == {j \in i..Len(text) : text[j] \in LineBreaks}
         IN IF breaks = {} THEN <<SubSeq(text, i, Len(text))>>
            ELSE LET j == CHOOSE b \in breaks : \A c \in breaks : b <= c
                     next == IF text[j] = "\r" /\ j < Len(text) /\ text[j + 1] = "\n"
                             THEN j + 2 ELSE j + 1
                 IN <<SubSeq(text, i, j - 1)>> \o SplitFrom(text, next)

splitlines(text) == SplitFrom(text, 1)

----------------------------------------------------------------------------
\* File selection.

\* PurePath.suffix
Suffix(name) ==
    LET i == RFindDot(name)
    IN IF 1 < i /\ i < Len(name) THEN SubSeq(name, i, Len(name)) ELSE <<>>

Parts(path) == {path[i] : i \in 1..Len(path)}

\* Variant: the docs exclusion only for docs/httpserver as adjacent components.
should_scan_AdjacentDocs(path) ==
    LET name == path[Len(path)]
        parts == Parts(path)
    IN IF Suffix(name) # GoSuffix THEN FALSE
       ELSE IF EndsWith(name, TestGoSuffix) THEN FALSE
       ELSE IF parts \cap SKIP_DIRS # {} THEN FALSE
       ELSE IF \E i \in 1..(Len(path) - 1) : path[i] = Docs /\ path[i + 1] = HttpServer THEN FALSE
       ELSE TRUE

\* Variant: eligibility decided on the components below the scan root.
should_scan_RelativeParts(path) ==
    LET name == path[Len(path)]
        parts == {path[i] : i \in (Len(root) + 1)..Len(path)}
    IN IF Suffix(name) # GoSuffix THEN FALSE
       ELSE IF EndsWith(name, TestGoSuffix) THEN FALSE
       ELSE IF parts \cap SKIP_DIRS # {} THEN FALSE
       ELSE IF Docs \in parts /\ HttpServer \in parts THEN FALSE
       ELSE TRUE

should_scan(path) ==
    LET name == path[Len(path)]
        parts == Parts(path)
    IN IF Suffix(name) # GoSuffix THEN FALSE
       ELSE IF EndsWith(name, TestGoSuffix) THEN FALSE
       ELSE IF parts \cap SKIP_DIRS # {} THEN FALSE
       ELSE IF Docs \in parts /\ HttpServer \in parts THEN FALSE
       ELSE TRUE

----------------------------------------------------------------------------
\* Line scanning.

Violation(path, i, msg) == [path |-> path, line_no |-> i, message |-> msg]

\* Variant: the marker counts only as the end of the line.
HasAllowTag_AtEnd(line) == EndsWith(line, ALLOW_TAG)

HasAllowTag(line) == Contains(line, ALLOW_TAG)

\* "fmt.Sprintf(" in line and ("SELECT " in line or ... or "DELETE " in line)
SprintfSql(line) ==
    /\ Contains(line, FmtSprintf)
    /\ \/ Contains(line, KwSelect)
       \/ Contains(line, KwInsert)
       \/ Contains(line, KwUpdate)
       \/ Contains(line, KwDelete)

\* Start of the leftmost match of pat in line (0 when there is none).
FirstMatchPos(pat, line) ==
    LET starts == {p \in 1..(Len(line) + 1) : MatchAt(pat.re, 1, line, p)}
    IN IF starts = {} THEN 0 ELSE CHOOSE p \in starts : \A q \in starts : p <= q

\* Variant: the pattern whose match starts leftmost in the line is reported.
FirstBadCall_Leftmost(line) ==
    LET hits == {k \in 1..Len(BAD_CALL_PATTERNS) : Search(BAD_CALL_PATTERNS[k], line)}
    IN IF hits = {} THEN 0
       ELSE CHOOSE k \in hits :
              \A j \in hits :
                 \/ FirstMatchPos(BAD_CALL_PATTERNS[k], line) < FirstMatchPos(BAD_CALL_PATTERNS[j], line)
                 \/ /\ FirstMatchPos(BAD_CALL_PATTERNS[k], line) = FirstMatchPos(BAD_CALL_PATTERNS[j], line)
                    /\ k <= j

\* The for/break loop over BAD_CALL_PATTERNS: index of the pattern reported
\* for the line, 0 when none matches.
FirstBadCall(line) ==
    LET hits == {k \in 1..Len(BAD_CALL_PATTERNS) : Search(BAD_CALL_PATTERNS[k], line)}
    IN IF hits = {} THEN 0 ELSE CHOOSE k \in hits : \A j \in hits : k <= j

\* Variant: the Sprintf violation ends the line's checks (a continue after it).
line_violations_SprintfContinue(path, i, line) ==
    IF Contains(line, ALLOW_TAG) THEN <<>>
    ELSE IF Search(BAD_IMPORT_PATTERN, line) THEN <<Violation(path, i, ImportMsg)>>
    ELSE IF SprintfSql(line) THEN <<Violation(path, i, SprintfMsg)>>
    ELSE LET k == FirstBadCall(line)
         IN IF k = 0 THEN <<>>
            ELSE <<Violation(path, i, CallMsg(BAD_CALL_PATTERNS[k]))>>

\* Variant: no break, one violation per matching call pattern.
line_violations_NoBreak(path, i, line) ==
    IF Contains(line, ALLOW_TAG) THEN <<>>
    ELSE IF Search(BAD_IMPORT_PATTERN, line) THEN <<Violation(path, i, ImportMsg)>>
    ELSE (IF SprintfSql(line) THEN <<Violation(path, i, SprintfMsg)>> ELSE <<>>)
         \o Concat([k \in 1..Len(BAD_CALL_PATTERNS) |->
                       IF Search(BAD_CALL_PATTERNS[k], line)
                       THEN <<Violation(path, i, CallMsg(BAD_CALL_PATTERNS[k]))>>
                       ELSE <<>>])

\* One iteration of the loop over lines.
line_violations(path, i, line) ==
    IF HasAllowTag(line) THEN <<>>
    ELSE IF Search(BAD_IMPORT_PATTERN, line) THEN <<Violation(path, i, ImportMsg)>>
    ELSE (IF SprintfSql(line) THEN <<Violation(path, i, SprintfMsg)>> ELSE <<>>)
         \o (LET k == FirstBadCall(line)
             IN IF k = 0 THEN <<>>
                ELSE <<Violation(path, i, CallMsg(BAD_CALL_PATTERNS[k]))>>)

\* scan_file, given the file's bytes
scan_file(path, bytes) ==
    LET lines == splitlines(read_text(bytes))
    IN Concat([i \in 1..Len(lines) |-> line_violations(path, i, lines[i])])

----------------------------------------------------------------------------
\* The file system and the command line the script is run with.

Slash == <<"/">>
DotDot == <<".", ".">>
Repo == <<"r", "e", "p", "o">>
Api == <<"a", "p", "i">>
AGo == <<"a", ".", "g", "o">>
BGo == <<"b", ".", "g", "o">>
ATestGo == <<"a", "_", "t", "e", "s", "t", ".", "g", "o">>
NotesTxt == <<"n", "o", "t", "e", "s", ".", "t", "x", "t">>

RepoDir == <<Slash, Repo>>

\* Candidate files, as absolute paths.
AllPaths == {
    RepoDir \o <<AGo>>,
    RepoDir \o <<BGo>>,
    RepoDir \o <<ATestGo>>,
    RepoDir \o <<GoSuffix>>,
    RepoDir \o <<NotesTxt>>,
    RepoDir \o <<Vendor, AGo>>,
    RepoDir \o <<DotGit, AGo>>,
    RepoDir \o <<NodeModules, AGo>>,
    RepoDir \o <<Docs, AGo>>,
    RepoDir \o <<Docs, HttpServer, AGo>>,
    RepoDir \o <<HttpServer, Api, Docs, AGo>> }

\* import "database/sql"
ImportStmtLine == <<"i", "m", "p", "o", "r", "t", " ", "\"", "d", "a", "t", "a", "b", "a", "s", "e", "/", "s", "q", "l", "\"">>

\* Candidate file contents (bytes).
BytesImportStmt == ImportStmtLine \o <<"\n">>
BytesRawSql == <<"d", "b", ".", "E", "x", "e", "c", "(", "f", "m", "t", ".", "S", "p", "r", "i", "n", "t", "f", "(", "\"", "D", "E", "L", "E", "T", "E", " ", "%", "s", "\"", ")", ")", "\n", "\t", "\"", "d", "a", "t", "a", "b", "a", "s", "e", "/", "s", "q", "l", "\"", "\n">>
BytesLatin1 == <<"/", "/", " ", "o", "k", "0x85", "d", "b", ".", "Q", "u", "e", "r", "y", "(", "q", ")">>

File(bytes) == [kind |-> "file", bytes |-> bytes]
\* An entry whose read_text raises OSError (permission denied, a directory).
Unreadable == [kind |-> "unreadable", bytes |-> <<>>]

Entries == {File(BytesImportStmt), File(BytesRawSql), File(BytesLatin1), Unreadable}

MaxFiles == 2

Trees ==
    UNION {[S -> Entries] : S \in {T \in SUBSET AllPaths : Cardinality(T) <= MaxFiles}}

Cwds == {RepoDir, RepoDir \o <<Vendor>>}

\* sys.argv[1:], the argument already split into path components.
Argvs == {<<>>, <<<<Docs>>>>, <<<<DotDot>>>>, <<RepoDir \o <<Docs, HttpServer>>>>}

\* Fragments a scanned file is put together from.
Fragments == {
    <<"d", "b", ".", "Q", "u", "e", "r", "y", "(">>,
    <<"\r", "\n", ".", "\t", "E", "x", "e", "c", " ", "(">>,
    <<".", "Q", "u", "e", "r", "y", "R", "o", "w", "C", "o", "n", "t", "e", "x", "t", "(">>,
    FmtSprintf,
    KwSelect,
    KwUpdate,
    <<"\t">> \o DatabaseSqlQuoted \o <<" ">>,
    <<"/", "/", " ">> \o ALLOW_TAG,
    <<"i", "m", "p", "o", "r", "t", " ">> }

MaxFrags == 4

FragmentSeqs == UNION {[1..n -> Fragments] : n \in 0..MaxFrags}

----------------------------------------------------------------------------
\* main

\* Path.resolve() of an argument given relative to cwd (no symlinks).
RECURSIVE Normalize(_, _)
Normalize(parts, acc) ==
    IF parts = <<>> THEN acc
    ELSE IF Head(parts) = DotDot
         THEN Normalize(Tail(parts), IF Len(acc) > 1 THEN SubSeq(acc, 1, Len(acc) - 1) ELSE acc)
    ELSE Normalize(Tail(parts), Append(acc, Head(parts)))

Resolve(dir, path) ==
    IF path # <<>> /\ path[1] = Slash THEN Normalize(Tail(path), <<Slash>>)
    ELSE Normalize(path, dir)

IsUnder(path, dir) ==
    /\ Len(path) > Len(dir)
    /\ SubSeq(path, 1, Len(dir)) = dir

\* The paths root.rglob("*.go") yields.
Rglob(fs, dir) ==
    {p \in DOMAIN fs : IsUnder(p, dir) /\ EndsWith(p[Len(p)], GoSuffix)}

\* item.path.relative_to(root)
relative_to(path, dir) == SubSeq(path, Len(dir) + 1, Len(path))

SuccessLine == [fmt |-> "check_gorm_postgres: no raw SQL violations found", args |-> <<>>]
HeaderLine == [fmt |-> "check_gorm_postgres: violations found", args |-> <<>>]
ItemLine(item, dir) ==
    [fmt |-> "- {rel}:{item.line_no}: {item.message}",
     args |-> <<relative_to(item.path, dir), item.line_no, item.message>>]

InitCommon ==
    /\ root = <<>>
    /\ pending = {}
    /\ visited = <<>>
    /\ reads = <<>>
    /\ violations = <<>>
    /\ out = <<>>
    /\ ret = <<>>
    /\ pc = "start"

Init ==
    /\ argv \in Argvs
    /\ cwd \in Cwds
    /\ tree \in Trees
    /\ InitCommon

\* One eligible file, its content put together from fragments.
InitScan ==
    /\ argv = <<>>
    /\ cwd = RepoDir
    /\ \E fs \in FragmentSeqs : tree = (RepoDir \o <<AGo>>) :> File(Concat(fs))
    /\ InitCommon

\* root = Path(argv[1] or ".").resolve(); violations = []; start of rglob
Start ==
    /\ pc = "start"
    /\ root' = Resolve(cwd, IF Len(argv) > 0 THEN argv[1] ELSE <<>>)
    /\ pending' = Rglob(tree, root')
    /\ violations' = <<>>
    /\ pc' = "walk"
    /\ UNCHANGED <<argv, cwd, tree, visited, reads, out, ret>>

\* Variant: a file's violations are put in front of the list.
Visit_Prepend ==
    /\ pc = "walk"
    /\ \E path \in pending :
        /\ pending' = pending \ {path}
        /\ visited' = Append(visited, path)
        /\ IF ~should_scan(path)
           THEN UNCHANGED <<reads, violations, pc>>
           ELSE /\ reads' = Append(reads, path)
                /\ IF tree[path].kind = "unreadable"
                   THEN pc' = "raised" /\ UNCHANGED violations
                   ELSE /\ violations' = scan_file(path, tree[path].bytes) \o violations
                        /\ UNCHANGED pc
    /\ UNCHANGED <<argv, cwd, tree, root, out, ret>>

\* Variant: an unreadable file is skipped and the walk goes on.
Visit_SkipUnreadable ==
    /\ pc = "walk"
    /\ \E path \in pending :
        /\ pending' = pending \ {path}
        /\ visited' = Append(visited, path)
        /\ IF ~should_scan(path)
           THEN UNCHANGED <<reads, violations, pc>>
           ELSE /\ reads' = Append(reads, path)
                /\ IF tree[path].kind = "unreadable"
                   THEN UNCHANGED <<violations, pc>>
                   ELSE /\ violations' = violations \o scan_file(path, tree[path].bytes)
                        /\ UNCHANGED pc
    /\ UNCHANGED <<argv, cwd, tree, root, out, ret>>

\* One iteration of the loop over rglob: should_scan, then scan_file and extend.
Visit ==
    /\ pc = "walk"
    /\ \E path \in pending :
        /\ pending' = pending \ {path}
        /\ visited' = Append(visited, path)
        /\ IF ~should_scan(path)
           THEN UNCHANGED <<reads, violations, pc>>
           ELSE /\ reads' = Append(reads, path)
                /\ IF tree[path].kind = "unreadable"
                   THEN pc' = "raised" /\ UNCHANGED violations
                   ELSE /\ violations' = violations \o scan_file(path, tree[path].bytes)
                        /\ UNCHANGED pc
    /\ UNCHANGED <<argv, cwd, tree, root, out, ret>>

\* Variant: the exit status does not depend on the violations.
Report_AlwaysZero ==
    /\ pc = "walk"
    /\ pending = {}
    /\ IF violations = <<>>
       THEN out' = <<SuccessLine>>
       ELSE out' = <<HeaderLine>> \o [k \in 1..Len(violations) |-> ItemLine(violations[k], root)]
    /\ ret' = <<0>>
    /\ pc' = "returned"
    /\ UNCHANGED <<argv, cwd, tree, root, pending, visited, reads, violations>>

\* The report after the loop, and main's return value.
Report ==
    /\ pc = "walk"
    /\ pending = {}
    /\ IF violations = <<>>
       THEN /\ out' = <<SuccessLine>>
            /\ ret' = <<0>>
       ELSE /\ out' = <<HeaderLine>> \o [k \in 1..Len(violations) |-> ItemLine(violations[k], root)]
            /\ ret' = <<1>>
    /\ pc' = "returned"
    /\ UNCHANGED <<argv, cwd, tree, root, pending, visited, reads, violations>>

Next == Start \/ Visit \/ Report

Spec == Init /\ [][Next]_vars

SpecScan == InitScan /\ [][Next]_vars

----------------------------------------------------------------------------
\* Properties.

CallMsgPrefix == "forbidden raw SQL API usage: "

\* The file scanned in a run of SpecScan, once scan_file has returned.
Scanned == pc = "walk" /\ reads # <<>>
ScannedLines == splitlines(read_text(tree[reads[1]].bytes))

\* Messages of the violations accumulated for line i of file path, in order.
MsgsAt(path, i) ==
    LET at == SelectSeq(violations, LAMBDA v : v.path = path /\ v.line_no = i)
    IN [k \in 1..Len(at) |-> at[k].message]

\* Violations accumulated for file path, in order.
ViolationsOf(path) == SelectSeq(violations, LAMBDA v : v.path = path)

\* Indices of the forbidden-call patterns that match the line.
CallHits(line) == {k \in 1..Len(BAD_CALL_PATTERNS) : Search(BAD_CALL_PATTERNS[k], line)}

HasSqlKeyword(line) ==
    \/ Contains(line, KwSelect)
    \/ Contains(line, KwInsert)
    \/ Contains(line, KwUpdate)
    \/ Contains(line, KwDelete)

AllCallMsgs == {CallMsg(BAD_CALL_PATTERNS[k]) : k \in 1..Len(BAD_CALL_PATTERNS)}

\* The tree holds exactly one file, eligible and under the root, whose only
\* line is `import "database/sql"`.
OneImportStmtFile ==
    \E p \in DOMAIN tree :
        /\ DOMAIN tree = {p}
        /\ IsUnder(p, root)
        /\ should_scan(p)
        /\ tree[p].kind = "file"
        /\ splitlines(read_text(tree[p].bytes)) = <<ImportStmtLine>>

\* C1: a run over a tree holding one eligible file with the line
\* `import "database/sql"` ends with exactly one violation, carrying the
\* message `forbidden import "database/sql"`, and main returns 1.
C1_ScenarioB ==
    (pc = "returned" /\ OneImportStmtFile) =>
        /\ Len(violations) = 1
        /\ violations[1].message = ImportMsg
        /\ ret = <<1>>

\* C2: when main returns, it returns 0 iff the violation list is empty and 1
\* iff it is not; with 0 the output is the success line alone, with 1 it is
\* the header line followed by exactly one line per violation.
C2_ExitCodeAndOutput ==
    pc = "returned" =>
        /\ ret \in {<<0>>, <<1>>}
        /\ ret = <<0>> <=> violations = <<>>
        /\ ret = <<1>> <=> Len(violations) >= 1
        /\ ret = <<0>> => out = <<SuccessLine>>
        /\ ret = <<1>> =>
              /\ Len(out) = 1 + Len(violations)
              /\ out[1] = HeaderLine
              /\ \A k \in 2..Len(out) : out[k].fmt = "- {rel}:{item.line_no}: {item.message}"

C2_Witness ==
    /\ pc = "returned"
    /\ ret = <<1>>
    /\ Len(violations) >= 2

\* C3: a line containing the allow marker anywhere yields no violation, whatever
\* else it matches, and every other line yields what it yields on its own.
C3_AllowMarker ==
    Scanned =>
        LET lines == ScannedLines
        IN \A i \in 1..Len(lines) :
              IF Contains(lines[i], ALLOW_TAG)
              THEN MsgsAt(reads[1], i) = <<>>
              ELSE LET alone == scan_file(reads[1], lines[i])
                   IN MsgsAt(reads[1], i) = [k \in 1..Len(alone) |-> alone[k].message]

C3_Witness ==
    /\ Scanned
    /\ LET lines == ScannedLines
       IN \E i \in 1..Len(lines) :
             /\ Contains(lines[i], ALLOW_TAG)
             /\ SprintfSql(lines[i]) \/ CallHits(lines[i]) # {}
             /\ \E k \in 1..Len(violations) : violations[k].line_no \in {i - 1, i + 1}

\* The rejections of should_scan, as the file selection rules state them.
Rejected(path) ==
    LET name == path[Len(path)]
    IN \/ Suffix(name) # GoSuffix
       \/ EndsWith(name, TestGoSuffix)
       \/ \E i \in 1..Len(path) : path[i] \in {DotGit, Vendor, NodeModules}
       \/ /\ \E i \in 1..Len(path) : path[i] = Docs
          /\ \E i \in 1..Len(path) : path[i] = HttpServer

\* C4: no violation is ever accumulated for a file that the selection rules
\* reject, whatever the file holds.
C4_RejectedFilesSilent ==
    \A p \in DOMAIN tree :
        Rejected(p) => \A k \in 1..Len(violations) : violations[k].path # p

C4_Witness ==
    /\ pc = "returned"
    /\ violations # <<>>
    /\ \E k \in 1..Len(visited) :
          /\ visited[k] = RepoDir \o <<HttpServer, Api, Docs, AGo>>
          /\ tree[visited[k]] = File(BytesRawSql)

\* C5: a scanned line without marker that is no import line and matches two or
\* more forbidden-call patterns yields exactly one call violation, naming the
\* matching pattern of smallest index.
C5_FirstPatternWins ==
    Scanned =>
        LET lines == ScannedLines
        IN \A i \in 1..Len(lines) :
              LET line == lines[i]
                  hits == CallHits(line)
                  calls == SelectSeq(MsgsAt(reads[1], i), LAMBDA m : m[1] = CallMsgPrefix)
              IN (/\ ~Contains(line, ALLOW_TAG)
                  /\ ~Search(BAD_IMPORT_PATTERN, line)
                  /\ Cardinality(hits) >= 2)
                 => /\ Len(calls) = 1
                    /\ \E k \in hits :
                          /\ \A j \in hits : k <= j
                          /\ calls[1] = CallMsg(BAD_CALL_PATTERNS[k])

\* A line where the call that appears first is not the one reported.
C5_Witness ==
    /\ Scanned
    /\ LET lines == ScannedLines
       IN \E i \in 1..Len(lines) :
             LET line == lines[i]
                 hits == CallHits(line)
             IN /\ ~Contains(line, ALLOW_TAG)
                /\ Cardinality(hits) >= 2
                /\ \E k \in hits :
                      /\ MsgsAt(reads[1], i) = <<CallMsg(BAD_CALL_PATTERNS[k])>>
                      /\ \E j \in hits :
                            FirstMatchPos(BAD_CALL_PATTERNS[j], line)
                               < FirstMatchPos(BAD_CALL_PATTERNS[k], line)

\* C6: a scanned line without marker that contains fmt.Sprintf( and a SQL
\* keyword followed by a space yields the Sprintf violation, whether or not a
\* call pattern matches; when one does, both are emitted, the Sprintf one first.
C6_SprintfIndependent ==
    Scanned =>
        LET lines == ScannedLines
        IN \A i \in 1..Len(lines) :
              LET line == lines[i]
                  msgs == MsgsAt(reads[1], i)
                  hits == CallHits(line)
              IN (/\ ~Contains(line, ALLOW_TAG)
                  /\ Contains(line, FmtSprintf)
                  /\ HasSqlKeyword(line))
                 => /\ Len(msgs) >= 1
                    /\ msgs[1] = SprintfMsg
                    /\ hits = {} => msgs = <<SprintfMsg>>
                    /\ hits # {} =>
                          /\ Len(msgs) = 2
                          /\ msgs[2] \in AllCallMsgs

C6_Witness ==
    /\ Scanned
    /\ LET lines == ScannedLines
       IN \E i \in 1..Len(lines) :
             /\ Contains(lines[i], FmtSprintf)
             /\ Contains(lines[i], KwUpdate)
             /\ CallHits(lines[i]) # {}
             /\ Len(MsgsAt(reads[1], i)) = 2

\* C7: the violations of one line are none, or the import violation alone, or
\* at most one Sprintf violation followed by at most one call violation.
C7_LineShapes ==
    Scanned =>
        LET lines == ScannedLines
        IN \A i \in 1..Len(lines) :
              LET msgs == MsgsAt(reads[1], i)
              IN /\ msgs \in {<<>>, <<ImportMsg>>, <<SprintfMsg>>}
                               \cup {<<c>> : c \in AllCallMsgs}
                               \cup {<<SprintfMsg, c>> : c \in AllCallMsgs}
                 /\ Search(BAD_IMPORT_PATTERN, lines[i]) => msgs = <<ImportMsg>>

C7_Witness ==
    /\ Scanned
    /\ LET lines == ScannedLines
       IN /\ \E i \in 1..Len(lines) : Len(MsgsAt(reads[1], i)) = 2
          /\ \E i \in 1..Len(lines) : MsgsAt(reads[1], i) = <<ImportMsg>>

\* Position of path in the enumeration so far.
VisitIndex(path) == CHOOSE k \in 1..Len(visited) : visited[k] = path

C8_Ordered ==
    /\ \A j \in 1..Len(violations) : \E k \in 1..Len(visited) : visited[k] = violations[j].path
    /\ \A j \in 1..Len(violations) : \A k \in (j + 1)..Len(violations) :
          /\ VisitIndex(violations[j].path) <= VisitIndex(violations[k].path)
          /\ violations[j].path = violations[k].path
                => violations[j].line_no <= violations[k].line_no
          /\ violations[j].line_no >= 1

C8_ReportInOrder ==
    (pc = "returned" /\ violations # <<>>) =>
        /\ Len(out) = Len(violations) + 1
        /\ \A k \in 1..Len(violations) :
              out[k + 1].args = <<relative_to(violations[k].path, root),
                                  violations[k].line_no, violations[k].message>>

C8_AppendOnly ==
    /\ Len(violations') >= Len(violations)
    /\ SubSeq(violations', 1, Len(violations)) = violations

\* C8: the violation list is in discovery order (files in enumeration order,
\* lines in non-decreasing number within a file), it only ever grows at its
\* end, and the report prints its entries in that order.
C8_DiscoveryOrder == [](C8_Ordered /\ C8_ReportInOrder) /\ [][C8_AppendOnly]_vars

C8_Witness ==
    /\ pc = "returned"
    /\ Len(reads) >= 2
    /\ \A k \in 1..Len(reads) : Len(ViolationsOf(reads[k])) >= 2

\* C9: a file that is not valid UTF-8 is read as latin-1 and scanned like any
\* other; an eligible file that cannot be read ends the run at once: main
\* raises, prints nothing and returns nothing, whatever was accumulated.
C9_DecodeRecoversIoFatal ==
    /\ \A k \in 1..Len(reads) :
          LET e == tree[reads[k]]
          IN /\ e.kind = "unreadable" => (pc = "raised" /\ k = Len(reads))
             /\ (e.kind = "file" /\ ~Utf8Valid(e.bytes)) =>
                   /\ k = Len(reads) => pc # "raised"
                   /\ ViolationsOf(reads[k])
                        = Concat([i \in 1..Len(splitlines(UniversalNewlines(Latin1Decode(e.bytes)))) |->
                                    line_violations(reads[k], i,
                                        splitlines(UniversalNewlines(Latin1Decode(e.bytes)))[i])])
    /\ pc = "raised" =>
          /\ reads # <<>>
          /\ tree[reads[Len(reads)]].kind = "unreadable"
          /\ out = <<>>
          /\ ret = <<>>
          /\ ~ENABLED Next

C9_Witness ==
    /\ pc = "raised"
    /\ \E k \in 1..Len(reads) :
          /\ tree[reads[k]] = File(BytesLatin1)
          /\ ViolationsOf(reads[k]) # <<>>

\* The resolved root lies in an excluded directory.
RootExcluded ==
    \/ \E i \in 1..Len(root) : root[i] \in {DotGit, Vendor, NodeModules}
    \/ /\ \E i \in 1..Len(root) : root[i] = Docs
       /\ \E i \in 1..Len(root) : root[i] = HttpServer

\* C10: when the resolved root has an excluded component, every file under it
\* is rejected, none is read, and the run prints the success line and returns 0.
C10_ExcludedRoot ==
    (pc # "start" /\ RootExcluded) =>
        /\ reads = <<>>
        /\ violations = <<>>
        /\ pc # "raised"
        /\ pc = "returned" => (out = <<SuccessLine>> /\ ret = <<0>>)

C10_Witness ==
    /\ pc = "returned"
    /\ RootExcluded
    /\ \E k \in 1..Len(visited) :
          /\ visited[k][Len(visited[k])] = AGo
          /\ tree[visited[k]] = File(BytesRawSql)
          /\ Parts(relative_to(visited[k], root)) \cap SKIP_DIRS = {}

====
